---- MODULE Spec2Model ----
(***************************************************************************)
(* CreditZen: client-side session-key lifecycle (services/authService.ts), *)
(* key serialisation (services/cryptoUtils.ts) and the encrypted blob      *)
(* store (services/storageService.ts).                                     *)
(*                                                                         *)
(* Every exported handler is one action.  The remote backend is a record   *)
(* of accounts and a table of blobs; every remote call and every           *)
(* localStorage.setItem has its outcome (ok / error / throw) drawn as an   *)
(* input of the action that makes it.                                      *)
(***************************************************************************)
EXTENDS Integers, Sequences, FiniteSets, TLC

\* ------------------------------------------------------------------ bounds
MaxTicks == 2

\* ------------------------------------------------------------ input values
Emails    == {"a@x.com"}
Passwords == {"secret123", "hunter2"}
SaltValues == {[str |-> "c2FsdDE="], [str |-> "c2FsdDI="]}
ClockSteps == {20 * 60, 7 * 24 * 60 * 60}
IVs == {[bytes |-> "iv-1"]}
CardLists == {<<>>, <<[id |-> "1", issuer |-> "Chase"]>>}
NotificationChoices ==
  {[daysBeforeStatement |-> 5, daysBeforeDue |-> 3],
   [daysBeforeStatement |-> 7, daysBeforeDue |-> 1]}
AIChoices ==
  {[provider |-> "google", modelId |-> "gemini-3-flash-preview",
    apiKey |-> "AIza"]}

\* --------------------------------------------------------- JS value model
\* null / undefined / a missing localStorage item
Null == [null |-> TRUE]
\* a string literal
Str(s) == [str |-> s]
\* JSON.stringify(v): a string that parses back to v
JSON_stringify(v) == [json |-> v]
\* JSON.parse(s): the value, or a SyntaxError for a string that is not JSON
SyntaxError == [error |-> "SyntaxError"]
JSON_parse(s) == IF "json" \in DOMAIN s THEN s.json ELSE SyntaxError
\* Number.prototype.toString and parseInt(s, 10)
\* parseInt yields NaN for a string without leading digits; every
\* comparison with NaN is false
NaN == [nan |-> TRUE]
toString(n) == [digits |-> n]
parseInt(s) == IF "digits" \in DOMAIN s THEN [nan |-> FALSE, value |-> s.digits]
               ELSE NaN
GreaterThan(t, x) == ~x.nan /\ t > x.value

\* ------------------------------------------------------------- constants
SESSION_KEY_STORAGE       == "creditzen_session_key"
SESSION_USER_STORAGE      == "creditzen_session_user"
SESSION_EXPIRY_STORAGE    == "creditzen_session_expiry"
SESSION_BIOMETRIC_ENABLED == "creditzen_biometric_enabled"
\* The clock is read in seconds (Date.now() / 1000), so the two timeouts
\* are the source's 20 * 60 * 1000 and 7 * 24 * 60 * 60 * 1000 ms in seconds
SESSION_TIMEOUT_MS        == 20 * 60
BIOMETRIC_TIMEOUT_MS      == 7 * 24 * 60 * 60
GUEST_DATA_KEY            == "creditzen_guest_data"

\* data.user.id of the account registered under an e-mail address
UserId(email) == IF email = "a@x.com" THEN "uid-a" ELSE "uid-b"
UserIds == {UserId(e) : e \in Emails}
\* `creditzen_user_data_${userId}`
UserDataKey(userId) == IF userId = "uid-a" THEN "creditzen_user_data_uid-a"
                       ELSE "creditzen_user_data_uid-b"

LSKeys == {SESSION_KEY_STORAGE, SESSION_USER_STORAGE, SESSION_EXPIRY_STORAGE,
           SESSION_BIOMETRIC_ENABLED, GUEST_DATA_KEY}
          \cup {UserDataKey(u) : u \in UserIds}

\* ----------------------------------------------------------- cryptoUtils
\* PBKDF2-HMAC-SHA256, 100000 iterations: deterministic and injective in
\* (password, salt)
PBKDF2(password, salt) == <<password, salt>>

deriveKey(password, saltBase64) ==
  [algorithm |-> "AES-GCM", length |-> 256, extractable |-> TRUE,
   usages |-> {"encrypt", "decrypt"}, bits |-> PBKDF2(password, saltBase64)]

exportKeyToJWK(key) ==
  [kty |-> "oct", alg |-> "A256GCM", ext |-> key.extractable,
   key_ops |-> key.usages, k |-> key.bits]

\* rejects (DataError) anything that is not an octet-sequence JWK
DataError == [error |-> "DataError"]
importKeyFromJWK(jwk) ==
  IF "kty" \in DOMAIN jwk /\ "k" \in DOMAIN jwk /\ jwk.kty = "oct"
  THEN [algorithm |-> "AES-GCM", length |-> 256, extractable |-> TRUE,
        usages |-> {"encrypt", "decrypt"}, bits |-> jwk.k]
  ELSE DataError

IsError(v) == "error" \in DOMAIN v

\* ---------------------------------------------------------- localStorage
getItem(ls, k) == ls[k]
setItem(ls, k, v) == [ls EXCEPT ![k] = v]
removeItem(ls, k) == [ls EXCEPT ![k] = Null]

\* Base64: a buffer and the string that encodes it are different values;
\* atob throws InvalidCharacterError on a string that is no Base64
bufferToBase64(buffer) == [base64 |-> buffer]
InvalidCharacterError == [error |-> "InvalidCharacterError"]
base64ToBuffer(base64) ==
  IF "base64" \in DOMAIN base64 THEN base64.base64 ELSE InvalidCharacterError

\* AES-GCM: the ciphertext opens only under the same key bits and iv
AES_GCM_encrypt(bits, iv, plaintext) ==
  [sealed |-> plaintext, under |-> bits, nonce |-> iv]

OperationError == [error |-> "OperationError"]

\* AES-GCM without its authentication: any key opens the ciphertext
AES_GCM_decryptUnchecked(bits, iv, data) ==
  IF "sealed" \in DOMAIN data THEN data.sealed ELSE OperationError

AES_GCM_decrypt(bits, iv, data) ==
  IF "sealed" \in DOMAIN data
  THEN IF data.under = bits /\ data.nonce = iv THEN data.sealed
       ELSE OperationError
  ELSE OperationError

\* encryptData(data, key) with iv the 12 random bytes it draws
encryptData(data, key, iv) ==
  [iv |-> bufferToBase64(iv),
   ciphertext |-> bufferToBase64(
                    AES_GCM_encrypt(key.bits, iv, JSON_stringify(data)))]

\* decryptData(iv, ciphertext, key): the parsed document or the error it
\* throws. The two Base64 strings are decoded before the try block; what
\* the decryption or JSON.parse throws inside it is replaced by the one
\* decryption error.
DecryptionFailed ==
  [error |-> "Decryption failed. Invalid password or corrupted data."]
decryptData(ivBase64, ciphertextBase64, key) ==
  LET iv   == base64ToBuffer(ivBase64)
      data == base64ToBuffer(ciphertextBase64)
  IN IF IsError(iv) THEN iv
     ELSE IF IsError(data) THEN data
     ELSE LET decryptedContent ==
                IF "decrypt" \in key.usages
                THEN AES_GCM_decrypt(key.bits, iv, data)
                ELSE OperationError
          IN IF IsError(decryptedContent) THEN DecryptionFailed
             ELSE IF IsError(JSON_parse(decryptedContent))
                  THEN DecryptionFailed
                  ELSE JSON_parse(decryptedContent)

\* currentSessionKey, currentUser: the module variables of authService
\* localStorage: window.localStorage of the origin
\* authUsers: the remote auth service, e-mail -> Null or [password, salt]
\* now: Date.now()
\* last: the call made by the last step: op, the handler; skip, the
\*       skipBiometricCheck argument; ret, how it returned ("true", "false",
\*       "ok" or "threw"); path, the return restoreSession took; wfail,
\*       whether a localStorage.setItem it made threw; wire, the requests
\*       it sent to the remote
\* userData: the remote table public.user_data, user_id -> Null or a row
\* onLine: navigator.onLine
\* pending: the promises that are in flight, each Null or the values the
\*       call holds across its await: persistSession, the call that
\*       disableBiometrics makes without awaiting it; saveCards and
\*       saveSettings, a call that has read the blob and not yet written it
VARIABLES currentSessionKey, currentUser, localStorage, authUsers, userData, onLine, now, last, pending

vars == <<currentSessionKey, currentUser, localStorage, authUsers, userData,
          onLine, now, last, pending>>

\* ------------------------------------------------------------ authService
\* variant: the preference is compared with a literal that is never stored
isBiometricEnabledAsOne(ls) ==
  getItem(ls, SESSION_BIOMETRIC_ENABLED) = Str("1")

isBiometricEnabled(ls) == getItem(ls, SESSION_BIOMETRIC_ENABLED) = Str("true")

\* variant: the session is always persisted under the short timeout
persistSessionShort(ls, key, user, t, failAt) ==
  LET ls1 == setItem(ls, SESSION_KEY_STORAGE,
                     JSON_stringify(exportKeyToJWK(key)))
      ls2 == setItem(ls1, SESSION_USER_STORAGE, JSON_stringify(user))
      ls3 == setItem(ls2, SESSION_EXPIRY_STORAGE,
                     toString(t + SESSION_TIMEOUT_MS))
  IN CASE failAt = 1 -> ls
       [] failAt = 2 -> ls1
       [] failAt = 3 -> ls2
       [] OTHER      -> ls3

\* failAt = n > 0: the n-th localStorage.setItem throws (QuotaExceededError)
\* and the catch swallows it; failAt = 0: all three writes succeed.
persistSession(ls, key, user, t, failAt) ==
  LET jwk     == exportKeyToJWK(key)
      isBio   == isBiometricEnabled(ls)
      timeout == IF isBio THEN BIOMETRIC_TIMEOUT_MS ELSE SESSION_TIMEOUT_MS
      ls1 == setItem(ls, SESSION_KEY_STORAGE, JSON_stringify(jwk))
      ls2 == setItem(ls1, SESSION_USER_STORAGE, JSON_stringify(user))
      ls3 == setItem(ls2, SESSION_EXPIRY_STORAGE, toString(t + timeout))
  IN CASE failAt = 1 -> ls
       [] failAt = 2 -> ls1
       [] failAt = 3 -> ls2
       [] OTHER      -> ls3

\* variant: the expiry is left behind
clearSessionKeepExpiry(ls) ==
  removeItem(removeItem(ls, SESSION_KEY_STORAGE), SESSION_USER_STORAGE)

clearSession(ls) ==
  removeItem(removeItem(removeItem(ls, SESSION_KEY_STORAGE),
                        SESSION_USER_STORAGE), SESSION_EXPIRY_STORAGE)

\* The outcome of restoreSession(skipBiometricCheck) called at time t.
\* writeThrows: the setItem of the refreshed expiry throws.
\* path names the return taken: "none" (no expiry stored), "expired",
\* "locked" (biometric check required), "incomplete" (key or profile
\* missing), "catch" (the catch block) or "restored".
\* restoreSession with the user assigned only after a later await: when it
\* resumes it puts the key in memory and leaves the user as it was
restoreSessionResumeKeyOnly(ls, key, user, jwk, userStr, t, writeThrows) ==
  IF IsError(importKeyFromJWK(jwk)) \/ IsError(JSON_parse(userStr))
  THEN [ls |-> clearSession(ls), key |-> key, user |-> user, ret |-> "false",
        wfail |-> FALSE, path |-> "catch"]
  ELSE [ls |-> ls, key |-> importKeyFromJWK(jwk), user |-> user,
        ret |-> "true", wfail |-> FALSE, path |-> "restored"]

\* restoreSession from the point where it awaits importKeyFromJWK(jwk),
\* with the userStr it read before: the import or the parse of the profile
\* may throw; key and user are assigned together; the expiry is refreshed
\* under the preference stored at that time
restoreSessionResume(ls, key, user, jwk, userStr, t, writeThrows) ==
  LET newKey  == importKeyFromJWK(jwk)
      newUser == JSON_parse(userStr)
      timeout == IF isBiometricEnabled(ls) THEN BIOMETRIC_TIMEOUT_MS
                 ELSE SESSION_TIMEOUT_MS
  IN IF IsError(newKey) \/ IsError(newUser)
       THEN [ls |-> clearSession(ls), key |-> key, user |-> user,
             ret |-> "false", wfail |-> FALSE, path |-> "catch"]
     ELSE IF writeThrows
       THEN [ls |-> clearSession(ls), key |-> newKey, user |-> newUser,
             ret |-> "false", wfail |-> TRUE, path |-> "catch"]
     ELSE [ls |-> setItem(ls, SESSION_EXPIRY_STORAGE, toString(t + timeout)),
           key |-> newKey, user |-> newUser, ret |-> "true",
           wfail |-> FALSE, path |-> "restored"]

\* restoreSession up to its await: the result it returns without reaching
\* the await, or path "await" with the jwk and userStr it goes on with
restoreSessionStart(ls, key, user, skipBiometricCheck, t) ==
  LET expiryStr == getItem(ls, SESSION_EXPIRY_STORAGE)
      expiry    == parseInt(expiryStr)
      jwkStr    == getItem(ls, SESSION_KEY_STORAGE)
      userStr   == getItem(ls, SESSION_USER_STORAGE)
      jwk       == JSON_parse(jwkStr)
      same      == [ls |-> ls, key |-> key, user |-> user, ret |-> "false",
                    wfail |-> FALSE, path |-> "none"]
  IN IF expiryStr = Null THEN same
     ELSE IF GreaterThan(t, expiry)
       THEN [same EXCEPT !.ls = clearSession(ls), !.path = "expired"]
     ELSE IF isBiometricEnabled(ls) /\ ~skipBiometricCheck
       THEN [same EXCEPT !.path = "locked"]
     ELSE IF jwkStr = Null \/ userStr = Null
       THEN [same EXCEPT !.path = "incomplete"]
     ELSE IF IsError(jwk)
       THEN [same EXCEPT !.ls = clearSession(ls), !.path = "catch"]
     ELSE [same EXCEPT !.path = "await"]

restoreSession(ls, key, user, skipBiometricCheck, t, writeThrows) ==
  LET start == restoreSessionStart(ls, key, user, skipBiometricCheck, t)
  IN IF start.path # "await" THEN start
     ELSE restoreSessionResume(ls, key, user,
                               JSON_parse(getItem(ls, SESSION_KEY_STORAGE)),
                               getItem(ls, SESSION_USER_STORAGE), t,
                               writeThrows)

\* ------------------------------------------------------------ remote auth
\* supabase.auth.signInWithPassword({email, password}); net = "down": the
\* request fails with 'Failed to fetch'
signInWithPassword(auth, email, password, net) ==
  IF net = "down" THEN [error |-> Str("Failed to fetch"), user |-> Null]
  ELSE IF auth[email] = Null \/ auth[email].password # password
    THEN [error |-> Str("Invalid login credentials"), user |-> Null]
  ELSE [error |-> Null,
        user |-> [id |-> UserId(email),
                  user_metadata |-> [salt |-> auth[email].salt]]]

\* supabase.auth.updateUser({data: {salt}}); outcome "ok" stores the salt in
\* the user's metadata, "error" resolves with {error} and stores nothing,
\* "throw" rejects
updateUser(auth, email, salt, outcome) ==
  IF outcome = "ok" THEN [auth EXCEPT ![email].salt = salt] ELSE auth

\* loginUser when the sign-in returned an error or no user: it throws
\* before a salt is read or a key derived, so nothing changes
\* variant: the key is derived and kept before the sign-in result is looked at
loginRejectedKeepsKey(ls, key, user, auth, password, newSalt, wire) ==
  [ls |-> ls, key |-> deriveKey(password, newSalt), user |-> user,
   auth |-> auth, ret |-> "threw", wfail |-> FALSE, wire |-> wire]

\* variant: a rejected sign-in ends the session that was open
loginRejectedClearsSession(ls, key, user, auth, password, newSalt, wire) ==
  [ls |-> clearSession(ls), key |-> Null, user |-> Null, auth |-> auth,
   ret |-> "threw", wfail |-> FALSE, wire |-> wire]

loginRejected(ls, key, user, auth, password, newSalt, wire) ==
  [ls |-> ls, key |-> key, user |-> user, auth |-> auth, ret |-> "threw",
   wfail |-> FALSE, wire |-> wire]

\* The outcome of loginUser(email, password) called at time t.
\*   net      outcome of the sign-in request
\*   newSalt  what generateSalt() returns if it is called
\*   upd      outcome of the updateUser request if it is made
\*   failAt   which setItem of persistSession throws (0: none)
loginUser(ls, key, user, auth, email, password, net, newSalt, upd, t, failAt) ==
  LET res     == signInWithPassword(auth, email, password, net)
      signIn  == [api |-> "auth.signInWithPassword", email |-> email,
                  password |-> password]
  IN IF res.error # Null \/ res.user = Null
     THEN loginRejected(ls, key, user, auth, password, newSalt, <<signIn>>)
     ELSE
       LET stored  == res.user.user_metadata.salt
           first   == stored = Null
           salt    == IF first THEN newSalt ELSE stored
           update  == [api |-> "auth.updateUser", data |-> [salt |-> salt]]
           auth1   == IF first THEN updateUser(auth, email, salt, upd) ELSE auth
           wire1   == IF first THEN <<signIn, update>> ELSE <<signIn>>
           newKey  == deriveKey(password, salt)
           newUser == [id |-> res.user.id, username |-> email, salt |-> salt]
       IN IF first /\ upd = "throw"
            THEN [ls |-> ls, key |-> key, user |-> user, auth |-> auth,
                  ret |-> "threw", wfail |-> FALSE, wire |-> wire1]
            ELSE [ls |-> persistSession(ls, newKey, newUser, t, failAt),
                  key |-> newKey, user |-> newUser, auth |-> auth1,
                  ret |-> "ok", wfail |-> failAt # 0, wire |-> wire1]

\* The outcome of logoutUser(); signOut is the outcome of
\* supabase.auth.signOut(): "ok", "error" (resolves with {error}) or "throw"
logoutUser(ls, key, user, signOut) ==
  IF signOut = "throw"
  THEN [ls |-> ls, key |-> key, user |-> user, ret |-> "threw"]
  ELSE [ls |-> clearSession(ls), key |-> Null, user |-> Null, ret |-> "ok"]

\* The outcome of enableBiometrics() called at time t.
\*   prompt      "unsupported": isBiometricAvailable() is false;
\*               "rejected": navigator.credentials.create rejects; "ok"
\*   flagThrows  the setItem of the preference flag throws
enableBiometrics(ls, key, user, prompt, flagThrows, t, failAt) ==
  IF prompt # "ok" THEN [ls |-> ls, ret |-> "threw", wfail |-> FALSE]
  ELSE IF flagThrows THEN [ls |-> ls, ret |-> "threw", wfail |-> TRUE]
  ELSE LET ls1 == setItem(ls, SESSION_BIOMETRIC_ENABLED, Str("true"))
       IN IF key # Null /\ user # Null
          THEN [ls |-> persistSession(ls1, key, user, t, failAt),
                ret |-> "ok", wfail |-> failAt # 0]
          ELSE [ls |-> ls1, ret |-> "ok", wfail |-> FALSE]

\* The outcome of disableBiometrics(): the flag is removed and, with a
\* session in memory, persistSession(key, user) is called and not awaited:
\* persist is the promise left in flight when disableBiometrics returns
disableBiometrics(ls, key, user) ==
  [ls |-> removeItem(ls, SESSION_BIOMETRIC_ENABLED),
   persist |-> IF key # Null /\ user # Null
               THEN [key |-> key, user |-> user] ELSE Null]

\* supabase.auth.signUp({email, password}): creates the account unless the
\* address is taken or the network is down
signUp(auth, email, password, net) ==
  IF net = "ok" /\ auth[email] = Null
  THEN [auth EXCEPT ![email] = [password |-> password, salt |-> Null]]
  ELSE auth

\* --------------------------------------------------------- storageService
DEFAULT_NOTIFICATIONS == [daysBeforeStatement |-> 5, daysBeforeDue |-> 3]
DEFAULT_AI_SETTINGS ==
  [provider |-> "google", modelId |-> "gemini-3-flash-preview", apiKey |-> ""]

\* saveUserData without "always save locally first": the cache is written
\* only when no push is attempted
saveUserDataOnlineOnly(ls, remote, online, userId, data, cacheThrows, push) ==
  LET ls1 == IF cacheThrows THEN ls
             ELSE setItem(ls, UserDataKey(userId), JSON_stringify(data))
      upsert == [api |-> "user_data.upsert", user_id |-> userId,
                 iv |-> data.iv, ciphertext |-> data.ciphertext]
  IN IF online
     THEN [ls |-> ls,
           remote |-> IF push = "ok"
                      THEN [remote EXCEPT ![userId] =
                              [iv |-> data.iv, ciphertext |-> data.ciphertext]]
                      ELSE remote,
           wire |-> <<upsert>>, wfail |-> cacheThrows]
     ELSE [ls |-> ls1, remote |-> remote, wire |-> <<>>,
           wfail |-> cacheThrows]

\* The outcome of saveUserData(userId, data).
\*   cacheThrows  the setItem of the local cache throws (caught and logged)
\*   push         outcome of the upsert if one is made: "ok", "error"
\*                (resolves with {error}) or "throw"
saveUserData(ls, remote, online, userId, data, cacheThrows, push) ==
  LET ls1 == IF cacheThrows THEN ls
             ELSE setItem(ls, UserDataKey(userId), JSON_stringify(data))
      upsert == [api |-> "user_data.upsert", user_id |-> userId,
                 iv |-> data.iv, ciphertext |-> data.ciphertext]
  IN IF online
     THEN [ls |-> ls1,
           remote |-> IF push = "ok"
                      THEN [remote EXCEPT ![userId] =
                              [iv |-> data.iv, ciphertext |-> data.ciphertext]]
                      ELSE remote,
           wire |-> <<upsert>>, wfail |-> cacheThrows]
     ELSE [ls |-> ls1, remote |-> remote, wire |-> <<>>,
           wfail |-> cacheThrows]

\* The outcome of getUserDataRaw(userId).
\*   fetch        outcome of the select if one is made: "ok", "error" or
\*                "throw"; a select that finds no row resolves with an error
\*   cacheThrows  the setItem that refreshes the local cache throws, which
\*                the catch around the fetch takes for a network failure
getUserDataRaw(ls, remote, online, userId, fetch, cacheThrows) ==
  LET select == [api |-> "user_data.select", user_id |-> userId]
      local  == getItem(ls, UserDataKey(userId))
      cached == [ls |-> ls,
                 ret |-> IF local # Null THEN JSON_parse(local) ELSE Null,
                 wire |-> IF online THEN <<select>> ELSE <<>>,
                 wfail |-> FALSE]
  IN IF online /\ fetch = "ok" /\ remote[userId] # Null
     THEN IF cacheThrows THEN [cached EXCEPT !.wfail = TRUE]
          ELSE [ls |-> setItem(ls, UserDataKey(userId),
                               JSON_stringify(remote[userId])),
                ret |-> remote[userId], wire |-> <<select>>, wfail |-> FALSE]
     ELSE cached

getGuestData(ls) ==
  LET item == getItem(ls, GUEST_DATA_KEY)
  IN IF item # Null THEN JSON_parse(item)
     ELSE [cards |-> <<>>, settings |-> DEFAULT_NOTIFICATIONS,
           aiSettings |-> DEFAULT_AI_SETTINGS]

saveGuestData(ls, data) == setItem(ls, GUEST_DATA_KEY, JSON_stringify(data))

\* The outcome of syncData(): push the local cache, then pull.
syncData(ls, remote, online, user, push, fetch, cacheThrows) ==
  IF ~online \/ user = Null
  THEN [ls |-> ls, remote |-> remote, wire |-> <<>>, wfail |-> FALSE]
  ELSE LET local  == getItem(ls, UserDataKey(user.id))
           pushed == IF local # Null /\ ~IsError(JSON_parse(local))
                     THEN saveUserData(ls, remote, online, user.id,
                                       JSON_parse(local), cacheThrows, push)
                     ELSE [ls |-> ls, remote |-> remote, wire |-> <<>>,
                           wfail |-> FALSE]
           pulled == getUserDataRaw(pushed.ls, pushed.remote, online, user.id,
                                    fetch, cacheThrows)
       IN [ls |-> pulled.ls, remote |-> pushed.remote,
           wire |-> pushed.wire \o pulled.wire,
           wfail |-> pushed.wfail \/ pulled.wfail]

\* saveCards(cards) from the point where its getUserDataRaw has returned
\* encryptedData: the settings of that blob are kept, the new blob is
\* encrypted (iv is what encryptData draws) and saved
saveCardsResume(ls, remote, online, key, user, cards, iv, encryptedData, push, cacheThrows) ==
  LET decrypted == IF encryptedData = Null THEN DecryptionFailed
                   ELSE decryptData(encryptedData.iv,
                                    encryptedData.ciphertext, key)
      payload == [cards |-> cards,
                  settings |-> IF IsError(decrypted)
                               THEN DEFAULT_NOTIFICATIONS
                               ELSE decrypted.settings,
                  aiSettings |-> IF IsError(decrypted)
                                 THEN DEFAULT_AI_SETTINGS
                                 ELSE decrypted.aiSettings]
  IN saveUserData(ls, remote, online, user.id,
                  encryptData(payload, key, iv), cacheThrows, push)

\* saveCards without the mode split: the guest blob whoever is signed in
saveCardsGuestOnly(ls, remote, online, key, user, cards, iv, fetch, push, cacheThrows) ==
  [ls |-> saveGuestData(ls, [getGuestData(ls) EXCEPT !.cards = cards]),
   remote |-> remote, wire |-> <<>>, ret |-> "ok", wfail |-> FALSE]

\* The outcome of saveCards(cards)
saveCards(ls, remote, online, key, user, cards, iv, fetch, push, cacheThrows) ==
  IF user = Null
  THEN IF cacheThrows
       THEN [ls |-> ls, remote |-> remote, wire |-> <<>>, ret |-> "threw",
             wfail |-> TRUE]
       ELSE [ls |-> saveGuestData(ls, [getGuestData(ls) EXCEPT !.cards = cards]),
             remote |-> remote, wire |-> <<>>, ret |-> "ok", wfail |-> FALSE]
  ELSE IF key = Null
  THEN [ls |-> ls, remote |-> remote, wire |-> <<>>, ret |-> "ok",
        wfail |-> FALSE]
  ELSE LET got == getUserDataRaw(ls, remote, online, user.id, fetch, cacheThrows)
           saved == saveCardsResume(got.ls, remote, online, key, user, cards,
                                    iv, got.ret, push, cacheThrows)
       IN [ls |-> saved.ls, remote |-> saved.remote,
           wire |-> got.wire \o saved.wire, ret |-> "ok",
           wfail |-> got.wfail \/ saved.wfail]

\* saveSettings(notifications, ai) from the point where its getUserDataRaw
\* has returned encryptedData: the cards of that blob are kept
saveSettingsResume(ls, remote, online, key, user, notifications, ai, iv, encryptedData, push, cacheThrows) ==
  LET decrypted == IF encryptedData = Null THEN DecryptionFailed
                   ELSE decryptData(encryptedData.iv,
                                    encryptedData.ciphertext, key)
      payload == [cards |-> IF IsError(decrypted) THEN <<>>
                            ELSE decrypted.cards,
                  settings |-> notifications,
                  aiSettings |-> ai]
  IN saveUserData(ls, remote, online, user.id,
                  encryptData(payload, key, iv), cacheThrows, push)

\* The outcome of saveSettings(notifications, ai)
saveSettings(ls, remote, online, key, user, notifications, ai, iv, fetch, push, cacheThrows) ==
  IF user = Null
  THEN IF cacheThrows
       THEN [ls |-> ls, remote |-> remote, wire |-> <<>>, ret |-> "threw",
             wfail |-> TRUE]
       ELSE [ls |-> saveGuestData(ls, [getGuestData(ls) EXCEPT
                                        !.settings = notifications,
                                        !.aiSettings = ai]),
             remote |-> remote, wire |-> <<>>, ret |-> "ok", wfail |-> FALSE]
  ELSE IF key = Null
  THEN [ls |-> ls, remote |-> remote, wire |-> <<>>, ret |-> "ok",
        wfail |-> FALSE]
  ELSE LET got == getUserDataRaw(ls, remote, online, user.id, fetch, cacheThrows)
           saved == saveSettingsResume(got.ls, remote, online, key, user,
                                       notifications, ai, iv, got.ret, push,
                                       cacheThrows)
       IN [ls |-> saved.ls, remote |-> saved.remote,
           wire |-> got.wire \o saved.wire, ret |-> "ok",
           wfail |-> got.wfail \/ saved.wfail]

\* cleanCards(cards): the temporary benefits whose expiryDate is before
\* today are dropped from each card; today is the day the clock shows
cleanCards(cards, today) ==
  [i \in DOMAIN cards |->
     IF "temporaryBenefits" \in DOMAIN cards[i]
     THEN [cards[i] EXCEPT !.temporaryBenefits =
             SelectSeq(cards[i].temporaryBenefits,
                       LAMBDA benefit : ~(benefit.expiryDate < today))]
     ELSE cards[i]]

\* getCards with the expiry enforced on each call: once the clock is past
\* the persisted expiry the wallet reads as empty
getCardsUntilExpiry(ls, remote, online, key, user, fetch, cacheThrows, today) ==
  IF user = Null
  THEN [ls |-> ls, wire |-> <<>>, wfail |-> FALSE, ret |-> "ok",
        value |-> cleanCards(getGuestData(ls).cards, today)]
  ELSE IF key = Null
          \/ GreaterThan(today, parseInt(getItem(ls, SESSION_EXPIRY_STORAGE)))
  THEN [ls |-> ls, wire |-> <<>>, wfail |-> FALSE, ret |-> "ok",
        value |-> <<>>]
  ELSE LET got == getUserDataRaw(ls, remote, online, user.id, fetch, cacheThrows)
           decrypted == IF got.ret = Null THEN Null
                        ELSE decryptData(got.ret.iv, got.ret.ciphertext, key)
       IN [ls |-> got.ls, wire |-> got.wire, wfail |-> got.wfail,
           ret |-> "ok",
           value |-> IF decrypted = Null THEN <<>>
                     ELSE IF IsError(decrypted) THEN <<>>
                     ELSE cleanCards(decrypted.cards, today)]

\* The outcome of getCards(): value is the list it returns; every error,
\* a failed decryption included, is caught and answered with an empty list.
\* The state it leaves is that of the getUserDataRaw it makes.
getCards(ls, remote, online, key, user, fetch, cacheThrows, today) ==
  IF user = Null
  THEN [ls |-> ls, wire |-> <<>>, wfail |-> FALSE, ret |-> "ok",
        value |-> cleanCards(getGuestData(ls).cards, today)]
  ELSE IF key = Null
  THEN [ls |-> ls, wire |-> <<>>, wfail |-> FALSE, ret |-> "ok",
        value |-> <<>>]
  ELSE LET got == getUserDataRaw(ls, remote, online, user.id, fetch, cacheThrows)
           decrypted == IF got.ret = Null THEN Null
                        ELSE decryptData(got.ret.iv, got.ret.ciphertext, key)
       IN [ls |-> got.ls, wire |-> got.wire, wfail |-> got.wfail,
           ret |-> "ok",
           value |-> IF decrypted = Null THEN <<>>
                     ELSE IF IsError(decrypted) THEN <<>>
                     ELSE cleanCards(decrypted.cards, today)]

\* The outcome of getSettings(): value is {notifications, ai}; every
\* error is caught and answered with the defaults
getSettings(ls, remote, online, key, user, fetch, cacheThrows) ==
  LET defaults == [notifications |-> DEFAULT_NOTIFICATIONS,
                   ai |-> DEFAULT_AI_SETTINGS]
  IN IF user = Null
     THEN [ls |-> ls, wire |-> <<>>, wfail |-> FALSE, ret |-> "ok",
           value |-> [notifications |-> getGuestData(ls).settings,
                      ai |-> getGuestData(ls).aiSettings]]
     ELSE IF key = Null
     THEN [ls |-> ls, wire |-> <<>>, wfail |-> FALSE, ret |-> "ok",
           value |-> defaults]
     ELSE LET got == getUserDataRaw(ls, remote, online, user.id, fetch,
                                    cacheThrows)
              decrypted == IF got.ret = Null THEN Null
                           ELSE decryptData(got.ret.iv, got.ret.ciphertext,
                                            key)
          IN [ls |-> got.ls, wire |-> got.wire, wfail |-> got.wfail,
              ret |-> "ok",
              value |-> IF decrypted = Null THEN defaults
                        ELSE IF IsError(decrypted) THEN defaults
                        ELSE [notifications |-> decrypted.settings,
                              ai |-> decrypted.aiSettings]]

\* The outcome of importWalletJSON(jsonString, append); fetchCards and
\* fetchSettings are the outcomes of the selects that its getCards and its
\* getSettings make. ret is "ok" (it returns true) or "threw".
importWalletJSON(ls, remote, online, key, user, jsonString, append, iv, fetchCards, fetchSettings, push, cacheThrows, today) ==
  LET data == JSON_parse(jsonString)
      failed == [ls |-> ls, remote |-> remote, wire |-> <<>>,
                 wfail |-> FALSE, ret |-> "threw"]
  IN IF IsError(data) THEN failed
     ELSE IF "cards" \notin DOMAIN data THEN failed
     ELSE
       LET importedCards    == data.cards
           importedSettings == IF "settings" \in DOMAIN data
                               THEN data.settings ELSE DEFAULT_NOTIFICATIONS
           importedAI       == IF "aiSettings" \in DOMAIN data
                               THEN data.aiSettings ELSE DEFAULT_AI_SETTINGS
           gotCards    == getCards(ls, remote, online, key, user, fetchCards,
                                   cacheThrows, today)
           gotSettings == getSettings(gotCards.ls, remote, online, key, user,
                                      fetchSettings, cacheThrows)
           currentCards == gotCards.value
           currentIds   == {currentCards[i].id : i \in DOMAIN currentCards}
           newCards     == SelectSeq(importedCards,
                                     LAMBDA c : c.id \notin currentIds)
           payload ==
             [cards |-> IF append THEN currentCards \o newCards
                        ELSE importedCards,
              settings |-> IF append THEN gotSettings.value.notifications
                           ELSE importedSettings,
              aiSettings |-> IF append THEN gotSettings.value.ai
                             ELSE importedAI]
           read == [ls |-> gotSettings.ls, remote |-> remote,
                    wire |-> gotCards.wire \o gotSettings.wire,
                    wfail |-> gotCards.wfail \/ gotSettings.wfail,
                    ret |-> "ok"]
       IN IF user = Null
          THEN IF cacheThrows THEN [failed EXCEPT !.wfail = TRUE]
               ELSE [read EXCEPT !.ls = saveGuestData(gotSettings.ls, payload)]
          ELSE IF key = Null THEN read
          ELSE LET saved == saveUserData(gotSettings.ls, remote, online,
                                         user.id,
                                         encryptData(payload, key, iv),
                                         cacheThrows, push)
               IN [ls |-> saved.ls, remote |-> saved.remote,
                   wire |-> read.wire \o saved.wire,
                   wfail |-> read.wfail \/ saved.wfail, ret |-> "ok"]

\* ----------------------------------------------------------------- clock
\* number of clock steps taken to reach time t (a step is the short or the
\* long timeout)
TickCount(t) ==
  (t \div BIOMETRIC_TIMEOUT_MS)
  + ((t % BIOMETRIC_TIMEOUT_MS) \div SESSION_TIMEOUT_MS)

\* ------------------------------------------------------------------ Init
\* The values an input ranges over: all of S if the call consumes the input,
\* one fixed value of S if it never looks at it
Consumed(S, used) == IF used THEN S ELSE {CHOOSE x \in S : TRUE}

Called(op, skip, ret, wfail, wire) ==
  [op |-> op, skip |-> skip, ret |-> ret, path |-> "", wfail |-> wfail,
   wire |-> wire]

\* no call is suspended at an await
NothingPending ==
  [persistSession |-> Null, saveCards |-> Null, saveSettings |-> Null,
   loginUser |-> Null, restoreSession |-> Null, logoutUser |-> Null]

Init ==
  /\ currentSessionKey = Null
  /\ currentUser = Null
  /\ localStorage = [k \in LSKeys |-> Null]
  /\ authUsers = [e \in Emails |-> Null]
  /\ userData = [u \in UserIds |-> Null]
  /\ onLine = TRUE
  /\ now = 0
  /\ last = Called("init", FALSE, "ok", FALSE, <<>>)
  /\ pending = NothingPending

\* --------------------------------------------------------------- actions
RegisterUser ==
  \E email \in Emails, password \in Passwords, net \in {"ok", "down"} :
    /\ authUsers' = signUp(authUsers, email, password, net)
    /\ last' = Called("registerUser", FALSE,
                      IF authUsers' # authUsers THEN "ok" ELSE "threw", FALSE,
                      <<[api |-> "auth.signUp", email |-> email,
                         password |-> password]>>)
    /\ UNCHANGED <<currentSessionKey, currentUser, localStorage, userData,
                   onLine, now, pending>>

LoginUserWith(FailAts) ==
  \E email \in Emails, password \in Passwords, net \in {"ok", "down"} :
  \E newSalt \in Consumed(SaltValues,
         LET res == signInWithPassword(authUsers, email, password, net)
         IN res.error = Null /\ res.user.user_metadata.salt = Null) :
  \E upd \in Consumed({"ok", "error", "throw"},
         LET res == signInWithPassword(authUsers, email, password, net)
         IN res.error = Null /\ res.user.user_metadata.salt = Null) :
  \E failAt \in Consumed(FailAts,
         LET res == signInWithPassword(authUsers, email, password, net)
         IN res.error = Null
            /\ ~(res.user.user_metadata.salt = Null /\ upd = "throw")) :
    \E r \in {loginUser(localStorage, currentSessionKey, currentUser,
                       authUsers, email, password, net, newSalt, upd, now,
                       failAt)} :
       /\ currentSessionKey' = r.key
       /\ currentUser' = r.user
       /\ localStorage' = r.ls
       /\ authUsers' = r.auth
       /\ last' = Called("loginUser", FALSE, r.ret, r.wfail, r.wire)
       /\ UNCHANGED <<userData, onLine, now, pending>>

\* loginUser; any of the three writes of persistSession may throw
LoginUser == LoginUserWith(0..3)

\* loginUser while localStorage has room for the session record
LoginUserStored == LoginUserWith({0})

RestoreSession ==
  \E skipBiometricCheck \in BOOLEAN, writeThrows \in BOOLEAN :
    \E r \in {restoreSession(localStorage, currentSessionKey, currentUser,
                            skipBiometricCheck, now, writeThrows)} :
       /\ currentSessionKey' = r.key
       /\ currentUser' = r.user
       /\ localStorage' = r.ls
       /\ last' = [Called("restoreSession", skipBiometricCheck, r.ret,
                          r.wfail, <<>>) EXCEPT !.path = r.path]
       /\ UNCHANGED <<authUsers, userData, onLine, now, pending>>

LogoutUser ==
  \E signOut \in {"ok", "error", "throw"} :
    \E r \in {logoutUser(localStorage, currentSessionKey, currentUser,
                          signOut)} :
       /\ currentSessionKey' = r.key
       /\ currentUser' = r.user
       /\ localStorage' = r.ls
       /\ last' = Called("logoutUser", FALSE, r.ret, FALSE,
                         <<[api |-> "auth.signOut"]>>)
       /\ UNCHANGED <<authUsers, userData, onLine, now, pending>>

EnableBiometricsWith(Throws, FailAts) ==
  \E prompt \in {"unsupported", "rejected", "ok"} :
  \E flagThrows \in Consumed(Throws, prompt = "ok") :
  \E failAt \in Consumed(FailAts, prompt = "ok" /\ ~flagThrows
                                /\ currentSessionKey # Null
                                /\ currentUser # Null) :
    \E r \in {enableBiometrics(localStorage, currentSessionKey, currentUser,
                              prompt, flagThrows, now, failAt)} :
       /\ localStorage' = r.ls
       /\ last' = Called("enableBiometrics", FALSE, r.ret, r.wfail, <<>>)
       /\ UNCHANGED <<currentSessionKey, currentUser, authUsers, userData,
                      onLine, now, pending>>

\* enableBiometrics(); the write of the flag and any of the three writes of
\* persistSession may throw
EnableBiometrics == EnableBiometricsWith(BOOLEAN, 0..3)

\* enableBiometrics() while localStorage has room
EnableBiometricsStored == EnableBiometricsWith({FALSE}, {0})

\* disableBiometrics() with the persistSession it starts running to its end
\* before anything else does
DisableBiometricsWith(FailAts) ==
  \E failAt \in Consumed(FailAts, currentSessionKey # Null
                                /\ currentUser # Null) :
    \E r \in {disableBiometrics(localStorage, currentSessionKey,
                               currentUser)} :
       /\ localStorage' = IF r.persist = Null THEN r.ls
                          ELSE persistSession(r.ls, r.persist.key,
                                              r.persist.user, now, failAt)
       /\ last' = Called("disableBiometrics", FALSE, "ok",
                         r.persist # Null /\ failAt # 0, <<>>)
       /\ UNCHANGED <<currentSessionKey, currentUser, authUsers, userData,
                      onLine, now, pending>>

DisableBiometrics == DisableBiometricsWith(0..3)

DisableBiometricsStored == DisableBiometricsWith({0})

\* disableBiometrics() returns; the persistSession it started is in flight.
\* (At most one such promise is kept: a call made while one is in flight
\* is not taken.)
DisableBiometricsReturns ==
  /\ pending.persistSession = Null
  /\ \E r \in {disableBiometrics(localStorage, currentSessionKey,
                                  currentUser)} :
       /\ localStorage' = r.ls
       /\ pending' = [pending EXCEPT !.persistSession = r.persist]
       /\ last' = Called("disableBiometrics", FALSE, "ok", FALSE, <<>>)
       /\ UNCHANGED <<currentSessionKey, currentUser, authUsers, userData,
                      onLine, now>>

\* The persistSession that disableBiometrics left in flight runs to its
\* end: it reads the preference and the clock when it resumes
PersistSessionSettles ==
  /\ pending.persistSession # Null
  /\ \E failAt \in 0..3 :
       /\ localStorage' = persistSession(localStorage,
                                         pending.persistSession.key,
                                         pending.persistSession.user, now,
                                         failAt)
       /\ pending' = [pending EXCEPT !.persistSession = Null]
       /\ last' = Called("persistSession", FALSE, "ok", failAt # 0, <<>>)
       /\ UNCHANGED <<currentSessionKey, currentUser, authUsers, userData,
                      onLine, now>>

\* loginUser(email, password) is called: the sign-in request is sent and the
\* call is suspended. (At most one call of a kind is kept in flight.)
LoginUserStarts ==
  /\ pending.loginUser = Null
  /\ \E email \in Emails, password \in Passwords :
       /\ pending' = [pending EXCEPT !.loginUser =
                        [stage |-> "signIn", email |-> email,
                         password |-> password]]
       /\ last' = [Called("loginUser", FALSE, "pending", FALSE, <<>>)
                     EXCEPT !.path = "started"]
       /\ UNCHANGED <<currentSessionKey, currentUser, localStorage,
                      authUsers, userData, onLine, now>>

\* The suspended loginUser resumes after its sign-in, updateUser and
\* deriveKey awaits (between which it touches nothing but its locals): it
\* throws, or assigns the key and the user and calls persistSession, which
\* suspends at its exportKeyToJWK before any write
LoginUserSignedIn ==
  /\ pending.loginUser # Null
  /\ pending.loginUser.stage = "signIn"
  /\ \E net \in {"ok", "down"}, newSalt \in SaltValues,
        upd \in {"ok", "error", "throw"} :
     \E r \in {loginUser(localStorage, currentSessionKey, currentUser,
                         authUsers, pending.loginUser.email,
                         pending.loginUser.password, net, newSalt, upd, now,
                         0)} :
       /\ currentSessionKey' = r.key
       /\ currentUser' = r.user
       /\ authUsers' = r.auth
       /\ pending' = [pending EXCEPT !.loginUser =
                        IF r.ret = "threw" THEN Null
                        ELSE [stage |-> "persist", key |-> r.key,
                              user |-> r.user]]
       /\ last' = [Called("loginUser", FALSE,
                          IF r.ret = "threw" THEN "threw" ELSE "pending",
                          FALSE, r.wire) EXCEPT !.path = "resumed"]
       /\ UNCHANGED <<localStorage, userData, onLine, now>>

\* The persistSession of the suspended loginUser resumes: it writes the
\* record and loginUser returns the user
LoginUserPersists ==
  /\ pending.loginUser # Null
  /\ pending.loginUser.stage = "persist"
  /\ \E failAt \in 0..3 :
       /\ localStorage' = persistSession(localStorage, pending.loginUser.key,
                                         pending.loginUser.user, now, failAt)
       /\ pending' = [pending EXCEPT !.loginUser = Null]
       /\ last' = [Called("loginUser", FALSE, "ok", failAt # 0, <<>>)
                     EXCEPT !.path = "resumed"]
       /\ UNCHANGED <<currentSessionKey, currentUser, authUsers, userData,
                      onLine, now>>

\* restoreSession(skipBiometricCheck) is called: it returns at once, or is
\* suspended at importKeyFromJWK with the jwk and the userStr it has read
RestoreSessionStarts ==
  /\ pending.restoreSession = Null
  /\ \E skipBiometricCheck \in BOOLEAN :
     \E r \in {restoreSessionStart(localStorage, currentSessionKey,
                                   currentUser, skipBiometricCheck, now)} :
       /\ localStorage' = r.ls
       /\ pending' = [pending EXCEPT !.restoreSession =
                        IF r.path # "await" THEN Null
                        ELSE [jwk |-> JSON_parse(getItem(localStorage,
                                                     SESSION_KEY_STORAGE)),
                              userStr |-> getItem(localStorage,
                                                  SESSION_USER_STORAGE)]]
       /\ last' = [Called("restoreSession", skipBiometricCheck,
                          IF r.path = "await" THEN "pending" ELSE r.ret,
                          FALSE, <<>>)
                     EXCEPT !.path = IF r.path = "await" THEN "started"
                                     ELSE r.path]
       /\ UNCHANGED <<currentSessionKey, currentUser, authUsers, userData,
                      onLine, now>>

\* The suspended restoreSession resumes and runs to its end
RestoreSessionResumes ==
  /\ pending.restoreSession # Null
  /\ \E writeThrows \in BOOLEAN :
     \E r \in {restoreSessionResume(localStorage, currentSessionKey,
                                    currentUser, pending.restoreSession.jwk,
                                    pending.restoreSession.userStr, now,
                                    writeThrows)} :
       /\ currentSessionKey' = r.key
       /\ currentUser' = r.user
       /\ localStorage' = r.ls
       /\ pending' = [pending EXCEPT !.restoreSession = Null]
       /\ last' = [Called("restoreSession", FALSE, r.ret, r.wfail, <<>>)
                     EXCEPT !.path = "resumed"]
       /\ UNCHANGED <<authUsers, userData, onLine, now>>

\* logoutUser() is called: the sign-out request is sent and the call is
\* suspended
LogoutUserStarts ==
  /\ pending.logoutUser = Null
  /\ pending' = [pending EXCEPT !.logoutUser = [stage |-> "signOut"]]
  /\ last' = [Called("logoutUser", FALSE, "pending", FALSE,
                     <<[api |-> "auth.signOut"]>>)
               EXCEPT !.path = "started"]
  /\ UNCHANGED <<currentSessionKey, currentUser, localStorage, authUsers,
                 userData, onLine, now>>

\* The suspended logoutUser resumes after its sign-out and runs to its end
LogoutUserResumes ==
  /\ pending.logoutUser # Null
  /\ \E signOut \in {"ok", "error", "throw"} :
     \E r \in {logoutUser(localStorage, currentSessionKey, currentUser,
                          signOut)} :
       /\ currentSessionKey' = r.key
       /\ currentUser' = r.user
       /\ localStorage' = r.ls
       /\ pending' = [pending EXCEPT !.logoutUser = Null]
       /\ last' = [Called("logoutUser", FALSE, r.ret, FALSE, <<>>)
                     EXCEPT !.path = "resumed"]
       /\ UNCHANGED <<authUsers, userData, onLine, now>>

\* A page load: the module is evaluated afresh, localStorage survives
Reload ==
  /\ currentSessionKey' = Null
  /\ currentUser' = Null
  /\ last' = Called("reload", FALSE, "ok", FALSE, <<>>)
  /\ pending' = NothingPending
  /\ UNCHANGED <<localStorage, authUsers, userData, onLine, now>>

\* Settings' "clear all app data" button: after the confirm dialog is
\* accepted the guest blob is removed and the page reloads
HandleClearData ==
  \E confirmed \in BOOLEAN :
    IF confirmed
    THEN /\ localStorage' = removeItem(localStorage, GUEST_DATA_KEY)
         /\ currentSessionKey' = Null
         /\ currentUser' = Null
         /\ pending' = NothingPending
         /\ last' = Called("handleClearData", FALSE, "ok", FALSE, <<>>)
         /\ UNCHANGED <<authUsers, userData, onLine, now>>
    ELSE /\ last' = Called("handleClearData", FALSE, "cancelled", FALSE, <<>>)
         /\ UNCHANGED <<currentSessionKey, currentUser, localStorage,
                        authUsers, userData, onLine, now, pending>>

\* Time passes
Tick ==
  \E d \in ClockSteps :
    /\ TickCount(now) < MaxTicks
    /\ now' = now + d
    /\ last' = Called("tick", FALSE, "ok", FALSE, <<>>)
    /\ UNCHANGED <<currentSessionKey, currentUser, localStorage, authUsers,
                   userData, onLine, pending>>

SaveCardsWith(Throws) ==
  \E cards \in CardLists, iv \in IVs :
  \E fetch \in Consumed({"ok", "error", "throw"},
                        onLine /\ currentUser # Null
                        /\ currentSessionKey # Null) :
  \E push \in Consumed({"ok", "error", "throw"},
                       onLine /\ currentUser # Null
                       /\ currentSessionKey # Null) :
  \E cacheThrows \in Consumed(Throws, currentUser = Null
                                      \/ currentSessionKey # Null) :
    \E r \in {saveCards(localStorage, userData, onLine, currentSessionKey,
                        currentUser, cards, iv, fetch, push, cacheThrows)} :
       /\ localStorage' = r.ls
       /\ userData' = r.remote
       /\ last' = Called("saveCards", FALSE, r.ret, r.wfail, r.wire)
       /\ UNCHANGED <<currentSessionKey, currentUser, authUsers, onLine, now,
                   pending>>

\* saveCards; any write of the local cache may throw
SaveCards == SaveCardsWith(BOOLEAN)

\* saveCards while localStorage has room for the blob
SaveCardsStored == SaveCardsWith({FALSE})

GetCardsWith(Throws) ==
  \E fetch \in Consumed({"ok", "error", "throw"},
                        onLine /\ currentUser # Null
                        /\ currentSessionKey # Null) :
  \E cacheThrows \in Consumed(Throws, onLine /\ fetch = "ok"
                                      /\ currentUser # Null
                                      /\ currentSessionKey # Null) :
    \E r \in {getCards(localStorage, userData, onLine, currentSessionKey,
                       currentUser, fetch, cacheThrows, now)} :
       /\ localStorage' = r.ls
       /\ last' = Called("getCards", FALSE, r.ret, r.wfail, r.wire)
       /\ UNCHANGED <<currentSessionKey, currentUser, authUsers, userData,
                      onLine, now, pending>>

GetCards == GetCardsWith(BOOLEAN)

GetCardsStored == GetCardsWith({FALSE})

\* getSettings() while localStorage has room
GetSettingsStored ==
  \E fetch \in Consumed({"ok", "error", "throw"},
                        onLine /\ currentUser # Null
                        /\ currentSessionKey # Null) :
    \E r \in {getSettings(localStorage, userData, onLine, currentSessionKey,
                          currentUser, fetch, FALSE)} :
       /\ localStorage' = r.ls
       /\ last' = Called("getSettings", FALSE, r.ret, r.wfail, r.wire)
       /\ UNCHANGED <<currentSessionKey, currentUser, authUsers, userData,
                      onLine, now, pending>>

SyncDataWith(Throws) ==
  \E push \in Consumed({"ok", "error", "throw"},
                       onLine /\ currentUser # Null) :
  \E fetch \in Consumed({"ok", "error", "throw"},
                        onLine /\ currentUser # Null) :
  \E cacheThrows \in Consumed(Throws, onLine /\ currentUser # Null) :
    \E r \in {syncData(localStorage, userData, onLine, currentUser, push,
                       fetch, cacheThrows)} :
       /\ localStorage' = r.ls
       /\ userData' = r.remote
       /\ last' = Called("syncData", FALSE, "ok", r.wfail, r.wire)
       /\ UNCHANGED <<currentSessionKey, currentUser, authUsers, onLine, now,
                   pending>>

SyncData == SyncDataWith(BOOLEAN)

SyncDataStored == SyncDataWith({FALSE})

\* The encrypted payloads a caller may hand to saveUserData
Payloads ==
  {encryptData([cards |-> cards, settings |-> DEFAULT_NOTIFICATIONS,
                aiSettings |-> DEFAULT_AI_SETTINGS],
               deriveKey(password, salt), iv) :
     cards \in CardLists, password \in {"secret123"}, salt \in SaltValues,
     iv \in IVs}

\* saveUserData(userId, data) called on its own
SaveUserData ==
  \E userId \in UserIds, data \in Payloads, cacheThrows \in BOOLEAN :
  \E push \in Consumed({"ok", "error", "throw"}, onLine) :
    \E r \in {saveUserData(localStorage, userData, onLine, userId, data,
                            cacheThrows, push)} :
       /\ localStorage' = r.ls
       /\ userData' = r.remote
       /\ last' = [op |-> "saveUserData", skip |-> FALSE, ret |-> "ok",
                   path |-> IF onLine THEN push ELSE "offline",
                   wfail |-> r.wfail, wire |-> r.wire, userId |-> userId,
                   value |-> data]
       /\ UNCHANGED <<currentSessionKey, currentUser, authUsers, onLine, now,
                      pending>>

\* getUserDataRaw(userId) called on its own; value is what it returns
GetUserDataRaw ==
  \E userId \in UserIds :
  \E fetch \in Consumed({"ok", "error", "throw"}, onLine) :
  \E cacheThrows \in Consumed(BOOLEAN, onLine /\ fetch = "ok"
                                       /\ userData[userId] # Null) :
    \E r \in {getUserDataRaw(localStorage, userData, onLine, userId, fetch,
                              cacheThrows)} :
       /\ localStorage' = r.ls
       /\ last' = [op |-> "getUserDataRaw", skip |-> FALSE, ret |-> "ok",
                   path |-> IF onLine THEN fetch ELSE "offline",
                   wfail |-> r.wfail, wire |-> r.wire, userId |-> userId,
                   value |-> r.ret]
       /\ UNCHANGED <<currentSessionKey, currentUser, authUsers, userData,
                      onLine, now, pending>>

\* a call has been made and has not settled
InFlight(call) == IF call = Null THEN FALSE ELSE ~call.settled

\* saveCards(cards) of a signed-in session up to its first await: the
\* getUserDataRaw it makes has returned and the call holds what it read.
\* (One saveCards call and one saveSettings call are followed.)
SaveCardsReads ==
  /\ currentUser # Null /\ currentSessionKey # Null
  /\ pending.saveCards = Null
  /\ \E cards \in CardLists :
     \E fetch \in Consumed({"ok", "error"}, onLine) :
     \E got \in {getUserDataRaw(localStorage, userData, onLine,
                                currentUser.id, fetch, FALSE)} :
       /\ localStorage' = got.ls
       /\ pending' = [pending EXCEPT !.saveCards =
                        [cards |-> cards, key |-> currentSessionKey,
                         user |-> currentUser, encryptedData |-> got.ret,
                         settled |-> FALSE]]
       /\ last' = Called("saveCards.getUserDataRaw", FALSE, "ok", FALSE,
                         got.wire)
       /\ UNCHANGED <<currentSessionKey, currentUser, authUsers, userData,
                      onLine, now>>

\* the saveCards in flight builds, encrypts and saves its blob and settles
SaveCardsWrites ==
  /\ InFlight(pending.saveCards)
  /\ \E iv \in IVs :
     \E push \in Consumed({"ok", "error"}, onLine) :
     \E saved \in {saveCardsResume(localStorage, userData, onLine,
                                   pending.saveCards.key,
                                   pending.saveCards.user,
                                   pending.saveCards.cards, iv,
                                   pending.saveCards.encryptedData, push,
                                   FALSE)} :
       /\ localStorage' = saved.ls
       /\ userData' = saved.remote
       /\ pending' = [pending EXCEPT !.saveCards.settled = TRUE]
       /\ last' = Called("saveCards", FALSE, "ok", FALSE, saved.wire)
       /\ UNCHANGED <<currentSessionKey, currentUser, authUsers, onLine, now>>

\* saveSettings(notifications, ai) of a signed-in session up to its first
\* await
SaveSettingsReads ==
  /\ currentUser # Null /\ currentSessionKey # Null
  /\ pending.saveSettings = Null
  /\ \E notifications \in NotificationChoices, ai \in AIChoices :
     \E fetch \in Consumed({"ok", "error"}, onLine) :
     \E got \in {getUserDataRaw(localStorage, userData, onLine,
                                currentUser.id, fetch, FALSE)} :
       /\ localStorage' = got.ls
       /\ pending' = [pending EXCEPT !.saveSettings =
                        [notifications |-> notifications, ai |-> ai,
                         key |-> currentSessionKey, user |-> currentUser,
                         encryptedData |-> got.ret, settled |-> FALSE]]
       /\ last' = Called("saveSettings.getUserDataRaw", FALSE, "ok", FALSE,
                         got.wire)
       /\ UNCHANGED <<currentSessionKey, currentUser, authUsers, userData,
                      onLine, now>>

\* the saveSettings in flight builds, encrypts and saves its blob and settles
SaveSettingsWrites ==
  /\ InFlight(pending.saveSettings)
  /\ \E iv \in IVs :
     \E push \in Consumed({"ok", "error"}, onLine) :
     \E saved \in {saveSettingsResume(localStorage, userData, onLine,
                                      pending.saveSettings.key,
                                      pending.saveSettings.user,
                                      pending.saveSettings.notifications,
                                      pending.saveSettings.ai, iv,
                                      pending.saveSettings.encryptedData,
                                      push, FALSE)} :
       /\ localStorage' = saved.ls
       /\ userData' = saved.remote
       /\ pending' = [pending EXCEPT !.saveSettings.settled = TRUE]
       /\ last' = Called("saveSettings", FALSE, "ok", FALSE, saved.wire)
       /\ UNCHANGED <<currentSessionKey, currentUser, authUsers, onLine, now>>

\* The browser's online / offline events
SetOnLine ==
  /\ onLine' = ~onLine
  /\ last' = Called(IF onLine THEN "offline" ELSE "online", FALSE, "ok",
                    FALSE, <<>>)
  /\ UNCHANGED <<currentSessionKey, currentUser, localStorage, authUsers,
                 userData, now, pending>>

Next ==
  \/ RegisterUser
  \/ LoginUser
  \/ RestoreSession
  \/ LogoutUser
  \/ EnableBiometrics
  \/ DisableBiometrics
  \/ Reload
  \/ Tick

Spec == Init /\ [][Next]_vars

\* The blob store with the session handlers that open and close a session
NextData ==
  \/ RegisterUser
  \/ LoginUserStored
  \/ LogoutUser
  \/ Reload
  \/ SaveCards
  \/ GetCards
  \/ SyncData
  \/ SetOnLine

SpecData == Init /\ [][NextData]_vars

\* The blob store while localStorage has room: no write of the local cache
\* throws, so the cache differs from the remote row only by payloads that
\* were saved and not pushed
NextSync ==
  \/ RegisterUser
  \/ LoginUserStored
  \/ LogoutUser
  \/ Reload
  \/ SaveCardsStored
  \/ GetCardsStored
  \/ GetSettingsStored
  \/ SyncDataStored
  \/ SetOnLine

SpecSync == Init /\ [][NextSync]_vars

\* The backup files handed to importWalletJSON: a card with the id of a
\* stored card and other content, with settings; a card with a temporary
\* benefit that expired the day before, without settings; no JSON at all
FullBackup ==
  JSON_stringify([version |-> 2,
                  cards |-> <<[id |-> "1", issuer |-> "Citi"]>>,
                  settings |-> [daysBeforeStatement |-> 7,
                                daysBeforeDue |-> 1],
                  aiSettings |-> [provider |-> "google",
                                  modelId |-> "gemini-3-flash-preview",
                                  apiKey |-> "AIza"]])
CardsOnlyBackup ==
  JSON_stringify([version |-> 2,
                  cards |-> <<[id |-> "2", issuer |-> "Amex",
                               temporaryBenefits |->
                                 <<[expiryDate |-> -1]>>]>>])
NotABackup == Str("not a backup")
\* a backup file that lists the id "3" twice
DuplicateIdBackup ==
  JSON_stringify([version |-> 2,
                  cards |-> <<[id |-> "3", issuer |-> "Amex"],
                              [id |-> "3", issuer |-> "Discover"]>>])
Backups == {FullBackup, CardsOnlyBackup, NotABackup}

\* importWalletJSON(jsonString, append) while localStorage has room, with
\* one of the given files and one of the given modes; Outcomes are the
\* outcomes of its remote requests
ImportWalletJSONOf(Files, Appends, Outcomes) ==
  \E jsonString \in Files, append \in Appends, iv \in IVs :
  \E fetchCards \in Consumed(Outcomes,
                             onLine /\ currentUser # Null
                             /\ currentSessionKey # Null
                             /\ ~IsError(JSON_parse(jsonString))) :
  \E fetchSettings \in Consumed(Outcomes,
                                onLine /\ currentUser # Null
                                /\ currentSessionKey # Null
                                /\ ~IsError(JSON_parse(jsonString))) :
  \E push \in Consumed(Outcomes,
                       onLine /\ currentUser # Null
                       /\ currentSessionKey # Null
                       /\ ~IsError(JSON_parse(jsonString))) :
    \E r \in {importWalletJSON(localStorage, userData, onLine,
                               currentSessionKey, currentUser, jsonString,
                               append, iv, fetchCards, fetchSettings, push,
                               FALSE, now)} :
       /\ localStorage' = r.ls
       /\ userData' = r.remote
       /\ last' = [op |-> "importWalletJSON", skip |-> FALSE, ret |-> r.ret,
                   path |-> IF append THEN "append" ELSE "replace",
                   wfail |-> r.wfail, wire |-> r.wire,
                   value |-> JSON_parse(jsonString)]
       /\ UNCHANGED <<currentSessionKey, currentUser, authUsers, onLine, now,
                      pending>>

\* importWalletJSON called in guest mode (signedIn FALSE) or by a signed-in
\* user (signedIn TRUE)
ImportWalletJSONWhen(signedIn) ==
  ImportWalletJSONOf({b \in Backups : (currentUser # Null) = signedIn},
                     BOOLEAN, {"ok", "error"})

ImportWalletJSON == ImportWalletJSONWhen(TRUE)

\* importWalletJSON in append mode, in guest mode or in a session, while
\* the remote store answers
ImportWalletJSONAppend ==
  ImportWalletJSONOf({FullBackup, DuplicateIdBackup}, {TRUE}, {"ok"})

\* The localStorage entries that hold wallet data, and for each of them
\* the contents tried in its place: nothing, and a wallet no call stores
WalletKeys == {GUEST_DATA_KEY} \cup {UserDataKey(u) : u \in UserIds}
OtherContents(k) ==
  LET other == [cards |-> <<[id |-> "9", issuer |-> "Other"]>>,
                settings |-> [daysBeforeStatement |-> 1, daysBeforeDue |-> 1],
                aiSettings |-> DEFAULT_AI_SETTINGS]
  IN IF k = GUEST_DATA_KEY THEN {Null, JSON_stringify(other)}
     ELSE {Null, JSON_stringify(encryptData(other, deriveKey("other", [str |-> "c2FsdA=="]),
                                            [bytes |-> "iv-9"]))}

\* The outcome r of a call as it would be had the entry k of localStorage
\* held b throughout and the call not used it
Elsewhere(r, k, b) == [r EXCEPT !.ls = setItem(r.ls, k, b)]

\* A storageService call, made while localStorage has room and every push
\* reaches the remote, with its outcome r and the wallet entries it used
\* recorded. An entry is not used (no getItem, setItem or removeItem names
\* it) when, whatever it holds, the call leaves it as it was and does
\* everything else the same.
StorageCall(op, r, touched) ==
  /\ localStorage' = r.ls
  /\ userData' = IF "remote" \in DOMAIN r THEN r.remote ELSE userData
  /\ last' = [op |-> op, skip |-> FALSE, ret |-> r.ret, path |-> "",
              wfail |-> r.wfail, wire |-> r.wire,
              value |-> IF "value" \in DOMAIN r THEN r.value ELSE Null,
              touched |-> touched]
  /\ UNCHANGED <<currentSessionKey, currentUser, authUsers, onLine, now,
                 pending>>

GetCardsCall ==
  \E fetch \in Consumed({"ok", "error"},
                        onLine /\ currentUser # Null
                        /\ currentSessionKey # Null) :
  \E r \in {getCards(localStorage, userData, onLine, currentSessionKey,
                     currentUser, fetch, FALSE, now)} :
  \E touched \in {{k \in WalletKeys : \E b \in OtherContents(k) :
        \E q \in {getCards(setItem(localStorage, k, b), userData, onLine,
                           currentSessionKey, currentUser, fetch, FALSE,
                           now)} :
           q # Elsewhere(r, k, b)}} :
    StorageCall("getCards", r, touched)

GetSettingsCall ==
  \E fetch \in Consumed({"ok", "error"},
                        onLine /\ currentUser # Null
                        /\ currentSessionKey # Null) :
  \E r \in {getSettings(localStorage, userData, onLine, currentSessionKey,
                        currentUser, fetch, FALSE)} :
  \E touched \in {{k \in WalletKeys : \E b \in OtherContents(k) :
        \E q \in {getSettings(setItem(localStorage, k, b), userData, onLine,
                              currentSessionKey, currentUser, fetch,
                              FALSE)} :
           q # Elsewhere(r, k, b)}} :
    StorageCall("getSettings", r, touched)

SaveCardsCall ==
  \E cards \in CardLists, iv \in IVs :
  \E fetch \in Consumed({"ok", "error"},
                        onLine /\ currentUser # Null
                        /\ currentSessionKey # Null) :
  \E r \in {saveCards(localStorage, userData, onLine, currentSessionKey,
                      currentUser, cards, iv, fetch, "ok", FALSE)} :
  \E touched \in {{k \in WalletKeys : \E b \in OtherContents(k) :
        \E q \in {saveCards(setItem(localStorage, k, b), userData, onLine,
                            currentSessionKey, currentUser, cards, iv, fetch,
                            "ok", FALSE)} :
           q # Elsewhere(r, k, b)}} :
    StorageCall("saveCards", r, touched)

SaveSettingsCall ==
  \E notifications \in NotificationChoices, ai \in AIChoices, iv \in IVs :
  \E fetch \in Consumed({"ok", "error"},
                        onLine /\ currentUser # Null
                        /\ currentSessionKey # Null) :
  \E r \in {saveSettings(localStorage, userData, onLine, currentSessionKey,
                         currentUser, notifications, ai, iv, fetch, "ok",
                         FALSE)} :
  \E touched \in {{k \in WalletKeys : \E b \in OtherContents(k) :
        \E q \in {saveSettings(setItem(localStorage, k, b), userData,
                               onLine, currentSessionKey, currentUser,
                               notifications, ai, iv, fetch, "ok", FALSE)} :
           q # Elsewhere(r, k, b)}} :
    StorageCall("saveSettings", r, touched)

ImportWalletJSONCall ==
  \E jsonString \in {FullBackup, NotABackup}, append \in BOOLEAN, iv \in IVs :
  \E fetch \in Consumed({"ok", "error"},
                        onLine /\ currentUser # Null
                        /\ currentSessionKey # Null
                        /\ ~IsError(JSON_parse(jsonString))) :
  \E r \in {importWalletJSON(localStorage, userData, onLine,
                             currentSessionKey, currentUser, jsonString,
                             append, iv, fetch, fetch, "ok", FALSE, now)} :
  \E touched \in {{k \in WalletKeys : \E b \in OtherContents(k) :
        \E q \in {importWalletJSON(setItem(localStorage, k, b), userData,
                                   onLine, currentSessionKey, currentUser,
                                   jsonString, append, iv, fetch, fetch,
                                   "ok", FALSE, now)} :
           q # Elsewhere(r, k, b)}} :
    StorageCall("importWalletJSON", r, touched)

\* The five wallet calls in guest mode and, after a login, in a session
NextGuest ==
  \/ RegisterUser
  \/ LoginUserStored
  \/ GetCardsCall
  \/ GetSettingsCall
  \/ SaveCardsCall
  \/ SaveSettingsCall
  \/ ImportWalletJSONCall

SpecGuest == Init /\ [][NextGuest]_vars

\* A session that stays open while the clock runs past its persisted
\* expiry: the wallet calls and the biometric toggles, with no restore
NextExpiry ==
  \/ RegisterUser
  \/ LoginUserStored
  \/ LogoutUser
  \/ EnableBiometricsStored
  \/ DisableBiometricsStored
  \/ GetCardsCall
  \/ SaveCardsCall
  \/ SyncDataStored
  \/ Tick

SpecExpiry == Init /\ [][NextExpiry]_vars

\* The keys, documents and damages that encryptData and decryptData are
\* applied to
CryptoKeys == {deriveKey(password, salt) :
                 password \in Passwords, salt \in SaltValues}
Documents ==
  {[cards |-> cards, settings |-> notifications, aiSettings |-> ai] :
     cards \in CardLists, notifications \in NotificationChoices,
     ai \in AIChoices}
Damages == {"iv not Base64", "ciphertext not Base64", "ciphertext altered",
            "iv altered", "plaintext not JSON"}

\* what a stored payload looks like after the damage named how; a payload
\* whose plaintext is no JSON text is one that other software encrypted
\* under the same key
damaged(payload, how, key) ==
  CASE how = "iv not Base64" ->
         [payload EXCEPT !.iv = Str("%%%")]
    [] how = "ciphertext not Base64" ->
         [payload EXCEPT !.ciphertext = Str("%%%")]
    [] how = "ciphertext altered" ->
         [payload EXCEPT !.ciphertext = bufferToBase64([bytes |-> "altered"])]
    [] how = "iv altered" ->
         [payload EXCEPT !.iv = bufferToBase64([bytes |-> "iv-0"])]
    [] OTHER ->
         [payload EXCEPT !.ciphertext =
            bufferToBase64(AES_GCM_encrypt(key.bits,
                                           base64ToBuffer(payload.iv),
                                           Str("not json")))]

\* encryptData(data, key)
EncryptData ==
  \E data \in Documents, key \in CryptoKeys, iv \in IVs :
    /\ last' = [op |-> "encryptData", skip |-> FALSE, ret |-> "ok",
                path |-> "", wfail |-> FALSE, wire |-> <<>>,
                data |-> data, key |-> key,
                value |-> encryptData(data, key, iv)]
    /\ UNCHANGED <<currentSessionKey, currentUser, localStorage, authUsers,
                   userData, onLine, now, pending>>

\* the payload that encryptData returned is damaged where it is stored
DamagePayload ==
  /\ last.op = "encryptData"
  /\ \E how \in Damages :
       last' = [last EXCEPT !.op = "damage", !.path = how,
                            !.value = damaged(last.value, how, last.key)]
  /\ UNCHANGED <<currentSessionKey, currentUser, localStorage, authUsers,
                 userData, onLine, now, pending>>

\* decryptData(iv, ciphertext, key2) applied to the payload; value is the
\* document it returns or the error it throws
DecryptData ==
  /\ last.op \in {"encryptData", "damage"}
  /\ \E key2 \in CryptoKeys :
       last' = [op |-> "decryptData", skip |-> FALSE,
                ret |-> IF IsError(decryptData(last.value.iv,
                                               last.value.ciphertext, key2))
                        THEN "threw" ELSE "ok",
                path |-> last.path, wfail |-> FALSE, wire |-> <<>>,
                data |-> last.data, key |-> last.key, with |-> key2,
                value |-> decryptData(last.value.iv, last.value.ciphertext,
                                      key2)]
  /\ UNCHANGED <<currentSessionKey, currentUser, localStorage, authUsers,
                 userData, onLine, now, pending>>

\* encryptData and decryptData applied to every document, key and damage
NextCrypto ==
  \/ EncryptData
  \/ DamagePayload
  \/ DecryptData

SpecCrypto == Init /\ [][NextCrypto]_vars

\* Backup import into the wallet of a signed-in user
NextImport ==
  \/ RegisterUser
  \/ LoginUserStored
  \/ ImportWalletJSON

SpecImport == Init /\ [][NextImport]_vars

\* The two low-level helpers of the blob store called directly
NextBlob ==
  \/ SaveUserData
  \/ GetUserDataRaw
  \/ SetOnLine

SpecBlob == Init /\ [][NextBlob]_vars

\* saveCards and saveSettings of one session, each a read of the blob and,
\* after its awaits, a write of it; the two calls may overlap
NextRace ==
  \/ RegisterUser
  \/ LoginUserStored
  \/ SaveCardsReads
  \/ SaveCardsWrites
  \/ SaveSettingsReads
  \/ SaveSettingsWrites
  \/ SetOnLine

SpecRace == Init /\ [][NextRace]_vars

\* enableBiometrics and disableBiometrics with the persistSession that
\* disableBiometrics does not await settling at any later time
NextAsync ==
  \/ RegisterUser
  \/ LoginUserStored
  \/ RestoreSession
  \/ LogoutUser
  \/ EnableBiometrics
  \/ DisableBiometricsReturns
  \/ PersistSessionSettles
  \/ Reload
  \/ Tick

SpecAsync == Init /\ [][NextAsync]_vars

\* The life of the persisted session record: created by a login, refreshed
\* by a restore, and the three events said to delete it
NextClear ==
  \/ RegisterUser
  \/ LoginUser
  \/ RestoreSession
  \/ LogoutUser
  \/ HandleClearData
  \/ Reload
  \/ Tick

SpecClear == Init /\ [][NextClear]_vars

\* loginUser, restoreSession and logoutUser overlapping: each call is
\* suspended at its awaits and the others run in between
NextOverlap ==
  \/ RegisterUser
  \/ LoginUserStarts
  \/ LoginUserSignedIn
  \/ LoginUserPersists
  \/ RestoreSessionStarts
  \/ RestoreSessionResumes
  \/ LogoutUserStarts
  \/ LogoutUserResumes
  \/ Reload

SpecOverlap == Init /\ [][NextOverlap]_vars

\* Imports in append mode into the guest wallet and into a user's wallet
NextAppend ==
  \/ RegisterUser
  \/ LoginUserStored
  \/ LogoutUser
  \/ SaveCardsCall
  \/ ImportWalletJSONAppend

SpecAppend == Init /\ [][NextAppend]_vars

\* ------------------------------------------------------------ state views
persistedKey    == getItem(localStorage, SESSION_KEY_STORAGE)
persistedUser   == getItem(localStorage, SESSION_USER_STORAGE)
persistedExpiry == getItem(localStorage, SESSION_EXPIRY_STORAGE)

\* no part of the session record is in localStorage
NoSessionRecord(ls) ==
  /\ getItem(ls, SESSION_KEY_STORAGE) = Null
  /\ getItem(ls, SESSION_USER_STORAGE) = Null
  /\ getItem(ls, SESSION_EXPIRY_STORAGE) = Null

\* an expiry is stored and the clock t is past it
Expired(ls, t) ==
  /\ getItem(ls, SESSION_EXPIRY_STORAGE) # Null
  /\ GreaterThan(t, parseInt(getItem(ls, SESSION_EXPIRY_STORAGE)))

\* key, profile and expiry are all stored and the clock t is not past the expiry
Unexpired(ls, t) ==
  /\ getItem(ls, SESSION_KEY_STORAGE) # Null
  /\ getItem(ls, SESSION_USER_STORAGE) # Null
  /\ getItem(ls, SESSION_EXPIRY_STORAGE) # Null
  /\ ~GreaterThan(t, parseInt(getItem(ls, SESSION_EXPIRY_STORAGE)))

\* the biometric preference flag is stored as 'true'
BiometricOn(ls) == getItem(ls, SESSION_BIOMETRIC_ENABLED) = Str("true")

PolicyTimeout(ls) == IF BiometricOn(ls) THEN 7 * 24 * 60 * 60 ELSE 20 * 60

\* ------------------------------------------------------------------ claims

\* C1: a restoreSession called while the clock is past the persisted expiry
\* returns false, leaves the in-memory key and user as they were (loads
\* nothing) and removes the persisted key, profile and expiry, whatever
\* skipBiometricCheck and the biometric preference are.
C1_ExpiredRestoreClears ==
  [][(last'.op = "restoreSession" /\ Expired(localStorage, now))
       => /\ last'.ret = "false"
          /\ currentSessionKey' = currentSessionKey
          /\ currentUser' = currentUser
          /\ NoSessionRecord(localStorage')]_vars

\* a restoreSession(true) with the preference enabled has found the record
\* expired and cleared it
C1_Witness ==
  /\ last.op = "restoreSession" /\ last.path = "expired" /\ last.skip
  /\ last.ret = "false"
  /\ BiometricOn(localStorage)
  /\ NoSessionRecord(localStorage)

\* C2: a restoreSession that returns false through its failure handling
\* (the catch block) ends LoggedOut: no key and no user in memory and no
\* part of the session record persisted.
C2_FailedRestoreIsLoggedOut ==
  (last.op = "restoreSession" /\ last.ret = "false" /\ last.path = "catch")
    => /\ currentSessionKey = Null
       /\ currentUser = Null
       /\ NoSessionRecord(localStorage)

\* C3: after every logoutUser call, however the remote sign-out ends, the
\* in-memory key and user are null, the session record is removed and the
\* biometric preference is what it was.
C3_LogoutClearsUnconditionally ==
  [][last'.op = "logoutUser"
       => /\ currentSessionKey' = Null
          /\ currentUser' = Null
          /\ NoSessionRecord(localStorage')
          /\ getItem(localStorage', SESSION_BIOMETRIC_ENABLED)
               = getItem(localStorage, SESSION_BIOMETRIC_ENABLED)]_vars

\* C4: with the biometric preference enabled, restoreSession(false) on an
\* unexpired record returns false and changes neither the memory nor
\* localStorage; and while the preference is enabled a key enters an empty
\* memory only in a restoreSession(true) or a loginUser step.
C4_BiometricGateKeepsLocked ==
  [][/\ (last'.op = "restoreSession" /\ ~last'.skip
         /\ BiometricOn(localStorage) /\ Unexpired(localStorage, now))
          => /\ last'.ret = "false"
             /\ currentSessionKey' = currentSessionKey
             /\ currentUser' = currentUser
             /\ localStorage' = localStorage
     /\ (BiometricOn(localStorage) /\ currentSessionKey = Null
         /\ currentSessionKey' # Null)
          => \/ last'.op = "loginUser"
             \/ last'.op = "restoreSession" /\ last'.skip]_vars

\* a cold start with the preference enabled: restoreSession(false) has
\* returned at the biometric check, the record is still there, no key loaded
C4_Witness ==
  /\ last.op = "restoreSession" /\ last.path = "locked" /\ ~last.skip
  /\ BiometricOn(localStorage)
  /\ Unexpired(localStorage, now)
  /\ currentSessionKey = Null /\ currentUser = Null

\* a key whose bits were derived from the password the remote accepts for
\* a registered account
Authenticated(bits) ==
  \E e \in Emails, salt \in SaltValues :
    authUsers[e] # Null /\ bits = PBKDF2(authUsers[e].password, salt)

\* C5: every key in memory, and every key in the persisted record, was
\* derived from the password the remote authentication accepts for a
\* registered account; a key in memory is held for that account.
C5_KeysComeFromAcceptedLogins ==
  /\ currentSessionKey # Null
       => /\ currentUser # Null
          /\ authUsers[currentUser.username] # Null
          /\ currentSessionKey.bits[1] =
               authUsers[currentUser.username].password
          /\ Authenticated(currentSessionKey.bits)
  /\ persistedKey # Null => Authenticated(JSON_parse(persistedKey).k)

\* a login with a password the remote rejects has thrown while a key of an
\* earlier accepted login is persisted
C5_Witness ==
  /\ last.op = "loginUser" /\ last.ret = "threw"
  /\ Len(last.wire) = 1
  /\ authUsers[last.wire[1].email] # Null
  /\ authUsers[last.wire[1].email].password # last.wire[1].password
  /\ persistedKey # Null
  /\ currentSessionKey = Null

\* what a successful loginUser leaves in memory: the key derived from the
\* accepted password and the profile's salt, and the profile of the account
LoginInMemory ==
  /\ currentSessionKey # Null /\ currentUser # Null
  /\ currentUser.id = UserId(currentUser.username)
  /\ authUsers[currentUser.username] # Null
  /\ currentSessionKey =
       deriveKey(authUsers[currentUser.username].password, currentUser.salt)
  /\ DOMAIN currentUser = {"id", "username", "salt"}

\* the complete session record of the session in memory, expiring one
\* policy timeout after the current time
LoginPersisted ==
  /\ persistedKey = JSON_stringify(exportKeyToJWK(currentSessionKey))
  /\ persistedUser = JSON_stringify(currentUser)
  /\ persistedExpiry = toString(now + PolicyTimeout(localStorage))

RestoreProceeds ==
  /\ last'.op = "restoreSession"
  /\ Unexpired(localStorage, now)
  /\ ~(BiometricOn(localStorage) /\ ~last'.skip)

\* after the step the memory holds the stored profile and a key whose
\* export is the stored JWK, usable to encrypt and decrypt, and the expiry
\* is rewritten to now + the timeout of the current policy
RestoredFromRecord ==
  /\ last'.ret = "true"
  /\ currentSessionKey' # Null /\ currentUser' # Null
  /\ JSON_stringify(exportKeyToJWK(currentSessionKey')) = persistedKey
  /\ currentSessionKey'.usages = {"encrypt", "decrypt"}
  /\ JSON_stringify(currentUser') = persistedUser
  /\ getItem(localStorage', SESSION_EXPIRY_STORAGE)
       = toString(now + PolicyTimeout(localStorage))
  /\ getItem(localStorage', SESSION_KEY_STORAGE) = persistedKey
  /\ getItem(localStorage', SESSION_USER_STORAGE) = persistedUser

\* C7: such a restoreSession returns true, leaves in memory the
\* key and the profile of one login (the key is the one derived with the
\* profile's salt) and rewrites the expiry.
C7_RestoreRoundTrip ==
  [][RestoreProceeds
       => /\ RestoredFromRecord
          /\ currentSessionKey'.bits[2] = currentUser'.salt]_vars

\* C8: from one state to the next the persisted expiry never decreases,
\* except in a logoutUser or a disableBiometrics step.
C8_ExpiryNeverMovesBack ==
  [][(persistedExpiry # Null
      /\ getItem(localStorage', SESSION_EXPIRY_STORAGE) # Null
      /\ last'.op \notin {"logoutUser", "disableBiometrics"})
       => parseInt(getItem(localStorage', SESSION_EXPIRY_STORAGE)).value
            >= parseInt(persistedExpiry).value]_vars

\* C9: a successful loginUser for the account of the session in memory
\* uses the salt that session was derived with, so it derives the same key.
C9_SaltNeverChanges ==
  [][(last'.op = "loginUser" /\ last'.ret = "ok"
      /\ currentUser # Null /\ currentSessionKey # Null
      /\ currentUser'.username = currentUser.username)
       => /\ currentUser'.salt = currentUser.salt
          /\ currentSessionKey' = currentSessionKey]_vars

\* a request that carries neither a password nor a key, and of the user's
\* data at most an iv and a ciphertext
ZeroKnowledge(request) ==
  /\ "password" \notin DOMAIN request
  /\ "key" \notin DOMAIN request
  /\ DOMAIN request \subseteq
       {"api", "email", "user_id", "data", "iv", "ciphertext"}
  /\ "data" \in DOMAIN request => DOMAIN request.data = {"salt"}

\* C10: no request sent to the remote carries the password or the derived
\* key; of the user's data it carries only {iv, ciphertext} and the salt.
C10_ZeroKnowledge ==
  \A i \in DOMAIN last.wire : ZeroKnowledge(last.wire[i])

\* the payload in the local cache of user uid, Null if there is none
cachedPayload(ls, uid) ==
  IF getItem(ls, UserDataKey(uid)) = Null THEN Null
  ELSE JSON_parse(getItem(ls, UserDataKey(uid)))

\* C11: a syncData made online by a signed-in user whose local cache holds
\* a payload leaves the remote row equal to that payload and the local
\* cache still holding it (the pull does not bring an older blob back).
C11_SyncPushesBeforePull ==
  [][(last'.op = "syncData" /\ onLine /\ currentUser # Null
      /\ cachedPayload(localStorage, currentUser.id) # Null)
       => /\ userData'[currentUser.id]
               = cachedPayload(localStorage, currentUser.id)
          /\ cachedPayload(localStorage', currentUser.id)
               = cachedPayload(localStorage, currentUser.id)]_vars


\* C12: a payload in the local cache that the remote row does not hold
\* (saved and not yet pushed) stays in the cache over every read of the
\* blob (getCards, syncData) unless that step's push stored it remotely.
C12_UnflushedChangeNeverLost ==
  [][\A uid \in UserIds :
       (last'.op \in {"getCards", "syncData"}
        /\ cachedPayload(localStorage, uid) # Null
        /\ cachedPayload(localStorage, uid) # userData[uid])
         => \/ cachedPayload(localStorage', uid)
                 = cachedPayload(localStorage, uid)
            \/ userData'[uid] = cachedPayload(localStorage, uid)]_vars


\* the document that the local cache of user uid holds, decrypted with key
cachedDocument(ls, uid, key) ==
  decryptData(cachedPayload(ls, uid).iv, cachedPayload(ls, uid).ciphertext,
              key)

\* C13: when the last saveCards(c) and the last saveSettings(n, a) of the
\* session have both completed, in whatever order their reads and writes
\* were interleaved, the stored blob holds the cards c and the settings n, a.
C13_NoLostUpdate ==
  (/\ pending.saveCards # Null /\ ~InFlight(pending.saveCards)
   /\ pending.saveSettings # Null /\ ~InFlight(pending.saveSettings)
   /\ currentUser # Null /\ currentSessionKey # Null)
    => LET doc == cachedDocument(localStorage, currentUser.id,
                                 currentSessionKey)
       IN /\ ~IsError(doc)
          /\ doc.cards = pending.saveCards.cards
          /\ doc.settings = pending.saveSettings.notifications
          /\ doc.aiSettings = pending.saveSettings.ai


\* C14: getUserDataRaw(userId), when online and the fetch yields a row,
\* returns that row and has written it to the local cache; in every other
\* case it returns the payload of the local cache (null if there is none)
\* and leaves the cache as it was; when offline it sends no request.
C14_GetUserDataRaw ==
  [][last'.op = "getUserDataRaw"
       => LET uid == last'.userId
          IN /\ IF last'.path = "ok" /\ userData[uid] # Null
                THEN /\ last'.value = userData[uid]
                     /\ cachedPayload(localStorage', uid) = userData[uid]
                ELSE /\ last'.value = cachedPayload(localStorage, uid)
                     /\ localStorage' = localStorage
             /\ last'.path = "offline" => last'.wire = <<>>
             /\ last'.path # "offline"
                  => last'.wire = <<[api |-> "user_data.select",
                                     user_id |-> uid]>>]_vars

C17_OneDecryptionError ==
  [][(last'.op = "decryptData" /\ last'.ret = "threw")
       => last'.value = DecryptionFailed]_vars


\* C18: a getCards or getSettings call of a signed-in session whose stored
\* blob does not decrypt with the session key reports the failure to its
\* caller (it throws) and returns no normal result.
C18_DecryptFailurePropagates ==
  [][(last'.op \in {"getCards", "getSettings"}
      /\ currentUser # Null /\ currentSessionKey # Null
      /\ cachedPayload(localStorage', currentUser.id) # Null
      /\ IsError(cachedDocument(localStorage', currentUser.id,
                                currentSessionKey)))
       => last'.ret = "threw"]_vars


\* the wallet stored for the current user: the guest blob, or the document
\* in the local cache decrypted with the session key (the empty wallet with
\* the default settings if there is none)
storedWallet(ls, user, key) ==
  IF user = Null THEN getGuestData(ls)
  ELSE IF cachedPayload(ls, user.id) = Null
       THEN [cards |-> <<>>, settings |-> DEFAULT_NOTIFICATIONS,
             aiSettings |-> DEFAULT_AI_SETTINGS]
       ELSE cachedDocument(ls, user.id, key)

\* C19: an importWalletJSON that returns true in append mode saves every
\* card of the existing wallet (as getCards shows it, its expired temporary
\* benefits dropped), followed by the imported cards whose id no existing
\* card has, with the existing settings; in replace mode it saves exactly
\* the imported cards, and the imported settings.
C19_ImportMergesById ==
  [][(last'.op = "importWalletJSON" /\ last'.ret = "ok"
      /\ (currentUser # Null => currentSessionKey # Null)
      /\ ~IsError(storedWallet(localStorage, currentUser, currentSessionKey)))
       => LET existing == storedWallet(localStorage, currentUser,
                                       currentSessionKey)
              saved    == storedWallet(localStorage', currentUser,
                                       currentSessionKey)
              imported == last'.value
              ids      == {existing.cards[i].id : i \in DOMAIN existing.cards}
          IN /\ ~IsError(saved)
             /\ IF last'.path = "append"
                THEN /\ saved.cards = cleanCards(existing.cards, now) \o
                          SelectSeq(imported.cards, LAMBDA c : c.id \notin ids)
                     /\ saved.settings = existing.settings
                     /\ saved.aiSettings = existing.aiSettings
                ELSE /\ saved.cards = imported.cards
                     /\ "settings" \in DOMAIN imported
                          => saved.settings = imported.settings
                     /\ "aiSettings" \in DOMAIN imported
                          => saved.aiSettings = imported.aiSettings]_vars


\* C20: when enableBiometrics or disableBiometrics returns normally on a
\* session in memory, no write having thrown, the preference is enabled
\* (after enableBiometrics) or disabled (after disableBiometrics), and
\* localStorage holds the exported key and the profile of that session with
\* an expiry of the time of the call plus 7 days (enabled) or plus 20
\* minutes (disabled).
C20_ToggleRepersistsSession ==
  [][(last'.op \in {"enableBiometrics", "disableBiometrics"}
      /\ last'.ret = "ok" /\ ~last'.wfail
      /\ currentSessionKey # Null /\ currentUser # Null)
       => /\ BiometricOn(localStorage') = (last'.op = "enableBiometrics")
          /\ getItem(localStorage', SESSION_KEY_STORAGE) =
               JSON_stringify(exportKeyToJWK(currentSessionKey))
          /\ getItem(localStorage', SESSION_USER_STORAGE) =
               JSON_stringify(currentUser)
          /\ getItem(localStorage', SESSION_EXPIRY_STORAGE) =
               toString(now + PolicyTimeout(localStorage'))]_vars


\* C21: after a logoutUser, after a restoreSession that found the clock past
\* the persisted expiry, and after an accepted clear-data action, no
\* persisted key, profile or expiry remains in localStorage.
C21_RecordDeletedOnThreeEvents ==
  [][(\/ last'.op = "logoutUser"
      \/ last'.op = "restoreSession" /\ Expired(localStorage, now)
      \/ last'.op = "handleClearData" /\ last'.ret = "ok")
       => NoSessionRecord(localStorage')]_vars


\* C22: a getCards, saveCards, getSettings, saveSettings or importWalletJSON
\* made while a current user is set neither reads nor writes the guest
\* blob; made while no current user is set it neither reads nor writes a
\* per-user cache entry and sends nothing to the remote store.
C22_GuestBlobOnlyWithoutUser ==
  [][last'.op \in {"getCards", "saveCards", "getSettings", "saveSettings",
                   "importWalletJSON"}
       => IF currentUser # Null
          THEN /\ GUEST_DATA_KEY \notin last'.touched
               /\ getItem(localStorage', GUEST_DATA_KEY) =
                    getItem(localStorage, GUEST_DATA_KEY)
          ELSE /\ last'.touched \subseteq {GUEST_DATA_KEY}
               /\ \A u \in UserIds :
                    getItem(localStorage', UserDataKey(u)) =
                      getItem(localStorage, UserDataKey(u))
               /\ last'.wire = <<>>
               /\ userData' = userData]_vars

\* a signed-in user imported a backup while a guest blob was stored: the
\* call went to the user's cache entry and to the remote store
C22_Witness ==
  /\ last.op = "importWalletJSON" /\ last.ret = "ok"
  /\ currentUser # Null /\ currentSessionKey # Null
  /\ getItem(localStorage, GUEST_DATA_KEY) # Null
  /\ last.touched = {UserDataKey(currentUser.id)}
  /\ last.wire # <<>>


\* the document sealed in a payload, as the holder of the right key reads it
sealedDocument(payload) ==
  JSON_parse(base64ToBuffer(payload.ciphertext).sealed)

\* C23: for a signed-in user with a key in memory and a stored document D,
\* saveCards stores a document with the settings and aiSettings of D, and
\* saveSettings stores a document with the cards of D, whether or not the
\* stored blob could be fetched or decrypted during the call.
C23_SavePreservesOtherFields ==
  [][(last'.op \in {"saveCards", "saveSettings"}
      /\ currentUser # Null /\ currentSessionKey # Null
      /\ cachedPayload(localStorage, currentUser.id) # Null)
       => LET D == sealedDocument(cachedPayload(localStorage, currentUser.id))
              S == sealedDocument(cachedPayload(localStorage',
                                                currentUser.id))
          IN IF last'.op = "saveCards"
             THEN S.settings = D.settings /\ S.aiSettings = D.aiSettings
             ELSE S.cards = D.cards]_vars


C25_KeyIffUser == (currentSessionKey = Null) <=> (currentUser = Null)

\* a suspended restoreSession has resumed and restored the session while a
\* loginUser and a logoutUser are suspended at their awaits
C25_Witness ==
  /\ last.op = "restoreSession" /\ last.path = "resumed" /\ last.ret = "true"
  /\ pending.loginUser # Null
  /\ pending.logoutUser # Null
  /\ currentSessionKey # Null

\* C26: when logoutUser has completed while a restoreSession or a loginUser
\* was suspended at an await, the resumption of that call leaves key and user
\* null and writes no part of the session record.
C26_LogoutIsFinal ==
  [][(/\ last.op = "logoutUser" /\ last.path = "resumed" /\ last.ret = "ok"
      /\ last'.op \in {"restoreSession", "loginUser"}
      /\ last'.path = "resumed")
       => /\ currentSessionKey' = Null
          /\ currentUser' = Null
          /\ NoSessionRecord(localStorage')]_vars

\* C27: the persisted key, profile and expiry are all present or all absent,
\* and when present the key was derived in the login the profile comes from
\* (from the profile's salt and the password of the profile's account).
C27_RecordAllOrNothing ==
  /\ (persistedKey = Null) = (persistedUser = Null)
  /\ (persistedKey = Null) = (persistedExpiry = Null)
  /\ persistedKey # Null /\ persistedUser # Null
       => /\ JSON_parse(persistedKey).k[2] = JSON_parse(persistedUser).salt
          /\ JSON_parse(persistedKey).k[1] =
               authUsers[JSON_parse(persistedUser).username].password

\* C28: a loginUser call that throws leaves the key in memory, the current
\* user and all of localStorage (the session record and the biometric
\* preference with it) as they were before the call.
C28_FailedLoginChangesNothing ==
  [][(last'.op = "loginUser" /\ last'.ret = "threw")
       => /\ currentSessionKey' = currentSessionKey
          /\ currentUser' = currentUser
          /\ localStorage' = localStorage]_vars

\* a loginUser with a wrong password for a registered account has thrown
\* while a session is open, its record is persisted and the biometric
\* preference is on
C28_Witness ==
  /\ last.op = "loginUser" /\ last.ret = "threw"
  /\ Len(last.wire) = 1
  /\ authUsers[last.wire[1].email] # Null
  /\ authUsers[last.wire[1].email].password # last.wire[1].password
  /\ currentSessionKey # Null /\ currentUser # Null
  /\ ~NoSessionRecord(localStorage)
  /\ BiometricOn(localStorage)

DistinctIds(cards) ==
  \A i, j \in DOMAIN cards : cards[i].id = cards[j].id => i = j

\* C30: when the cards of the stored wallet have pairwise distinct ids, the
\* card list saved by an importWalletJSON in append mode has pairwise
\* distinct ids, whatever the backup file lists.
C30_ImportKeepsIdsUnique ==
  [][(/\ last'.op = "importWalletJSON" /\ last'.path = "append"
      /\ last'.ret = "ok"
      /\ (currentUser # Null => currentSessionKey # Null)
      /\ ~IsError(storedWallet(localStorage, currentUser, currentSessionKey))
      /\ DistinctIds(storedWallet(localStorage, currentUser,
                                  currentSessionKey).cards))
       => LET saved == storedWallet(localStorage', currentUser,
                                    currentSessionKey)
          IN ~IsError(saved) /\ DistinctIds(saved.cards)]_vars

====
